---- MODULE Spec2Model ----
(***************************************************************************)
(* Model of the two Canvas reporting scripts last_participation.py and     *)
(* last_nonzero_score.py: the timestamp codec (z_to_dt / dt_to_z), the     *)
(* link-header pagination loop (get_navigation / get_list and its inlined  *)
(* copies) and the script bodies (fetch, order by due date, seed, the two  *)
(* aggregation walks, export).                                             *)
(***************************************************************************)
EXTENDS Integers, Sequences, FiniteSets, TLC

VARIABLES
    \* timestamp codec
    z, dto, zout, padsYear, cpc,
    \* paginated fetch
    pages, url, this_list, requests, fpc,
    \* the scripts: which one runs, the course on the server, and the
    \* script's own variables
    script, server, pc, error,
    assignment_groups, assignments, assignments_by_group, students,
    all_submissions, gradebook, assignment_ids_by_due_date,
    last_non_zero_score, last_submission, cursor, outfile

codec_vars == <<z, dto, zout, padsYear, cpc>>
fetch_vars == <<pages, url, this_list, requests, fpc>>
input_vars == <<script, server>>
snapshot_vars == <<assignment_groups, assignments, assignments_by_group, students,
                   all_submissions, gradebook>>
result_vars == <<assignment_ids_by_due_date, last_non_zero_score, last_submission,
                 outfile>>
run_vars == <<input_vars, pc, error, snapshot_vars, result_vars, cursor>>
vars == <<codec_vars, fetch_vars, run_vars>>

\* Python's None, and the marker of a raised exception.
\* Every value that may stand where a string or a date-time stands is a tuple,
\* so that the two below differ from every string and every date-time.
None == <<"None">>
ValueError == <<"ValueError">>

(***************************************************************************)
(* Timestamp codec.  A string is a sequence of one-character strings.      *)
(***************************************************************************)
Digits == {"0", "1", "2", "3", "4", "5", "6", "7", "8", "9"}

DigitVal(c) ==
    CASE c = "0" -> 0 [] c = "1" -> 1 [] c = "2" -> 2 [] c = "3" -> 3
      [] c = "4" -> 4 [] c = "5" -> 5 [] c = "6" -> 6 [] c = "7" -> 7
      [] c = "8" -> 8 [] c = "9" -> 9

DigitChar(n) ==
    CASE n = 0 -> "0" [] n = 1 -> "1" [] n = 2 -> "2" [] n = 3 -> "3"
      [] n = 4 -> "4" [] n = 5 -> "5" [] n = 6 -> "6" [] n = 7 -> "7"
      [] n = 8 -> "8" [] n = 9 -> "9"

\* s[p], or a character that matches nothing when p is past the end.
At(s, p) == IF p >= 1 /\ p <= Len(s) THEN s[p] ELSE "<end>"

IsDigit(c) == c \in Digits
Val2(s, p) == 10 * DigitVal(At(s, p)) + DigitVal(At(s, p + 1))

\* The directive regexes of _strptime.TimeRE, each as the set of lengths
\* its alternatives can consume at position p.
\*   %m  1[0-2]|0[1-9]|[1-9]
MonthLens(s, p) ==
    {n \in {2} : IsDigit(At(s, p)) /\ IsDigit(At(s, p + 1))
                 /\ Val2(s, p) >= 1 /\ Val2(s, p) <= 12}
    \cup {n \in {1} : IsDigit(At(s, p)) /\ At(s, p) # "0"}
\*   %d  3[0-1]|[1-2]\d|0[1-9]|[1-9]| [1-9]
DayLens(s, p) ==
    {n \in {2} : \/ /\ IsDigit(At(s, p)) /\ IsDigit(At(s, p + 1))
                    /\ Val2(s, p) >= 1 /\ Val2(s, p) <= 31
                 \/ /\ At(s, p) = " " /\ IsDigit(At(s, p + 1))
                    /\ At(s, p + 1) # "0"}
    \cup {n \in {1} : IsDigit(At(s, p)) /\ At(s, p) # "0"}
\*   %H  2[0-3]|[0-1]\d|\d
HourLens(s, p) ==
    {n \in {2} : IsDigit(At(s, p)) /\ IsDigit(At(s, p + 1)) /\ Val2(s, p) <= 23}
    \cup {n \in {1} : IsDigit(At(s, p))}
\*   %M  [0-5]\d|\d
MinuteLens(s, p) ==
    {n \in {2} : IsDigit(At(s, p)) /\ IsDigit(At(s, p + 1)) /\ Val2(s, p) <= 59}
    \cup {n \in {1} : IsDigit(At(s, p))}
\*   %S  6[0-1]|[0-5]\d|\d
SecondLens(s, p) ==
    {n \in {2} : IsDigit(At(s, p)) /\ IsDigit(At(s, p + 1)) /\ Val2(s, p) <= 61}
    \cup {n \in {1} : IsDigit(At(s, p))}
\*   %Y  \d\d\d\d
YearLens(s, p) ==
    {n \in {4} : \A i \in 0..3 : IsDigit(At(s, p + i))}

\* The value of a matched field: a leading blank of %d counts as nothing.
FieldVal(s, p, n) ==
    IF n = 1 THEN DigitVal(s[p])
    ELSE IF n = 2 THEN (IF s[p] = " " THEN DigitVal(s[p + 1]) ELSE Val2(s, p))
    ELSE 1000 * DigitVal(s[p]) + 100 * DigitVal(s[p + 1]) + Val2(s, p + 2)

\* The format's literal characters are matched with re.IGNORECASE.
LitT == {"T", "t"}
LitZ == {"Z", "z"}

IsLeap(y) == (y % 4 = 0 /\ y % 100 # 0) \/ y % 400 = 0
DaysInMonth(y, m) ==
    IF m = 2 THEN (IF IsLeap(y) THEN 29 ELSE 28)
    ELSE IF m \in {4, 6, 9, 11} THEN 30 ELSE 31

\* The format '%Y-%m-%dT%H:%M:%SZ', directive by directive.
Format == <<"%Y", "-", "%m", "-", "%d", "T", "%H", ":", "%M", ":", "%S", "Z">>
IsDirective(x) == x \in {"%Y", "%m", "%d", "%H", "%M", "%S"}
DirectiveLens(x, s, p) ==
    CASE x = "%Y" -> YearLens(s, p)
      [] x = "%m" -> MonthLens(s, p)
      [] x = "%d" -> DayLens(s, p)
      [] x = "%H" -> HourLens(s, p)
      [] x = "%M" -> MinuteLens(s, p)
      [] x = "%S" -> SecondLens(s, p)
Literal(x) ==
    CASE x = "T" -> LitT
      [] x = "Z" -> LitZ
      [] OTHER -> {x}

\* The match of the compiled format regex from Format[k] on, against s from
\* position p on, the fields extracted so far being acc: the date-time
\* <<Y, m, d, H, M, S>>, or ValueError.  A directive's longer alternatives
\* are tried before its one-character alternative, and an alternative is
\* given up when the rest of the format does not match after it.
RECURSIVE MatchFrom(_, _, _, _)
MatchFrom(s, p, k, acc) ==
    IF k > Len(Format)
    \* nothing may remain ("unconverted data remains")
    THEN (IF p = Len(s) + 1 THEN acc ELSE ValueError)
    ELSE IF ~IsDirective(Format[k])
    THEN (IF At(s, p) \in Literal(Format[k])
          THEN MatchFrom(s, p + 1, k + 1, acc) ELSE ValueError)
    ELSE LET lens == DirectiveLens(Format[k], s, p)
             long == IF Format[k] = "%Y" THEN 4 ELSE 2
             first == IF long \in lens
                      THEN MatchFrom(s, p + long, k + 1,
                                     Append(acc, FieldVal(s, p, long)))
                      ELSE ValueError
         IN IF first # ValueError THEN first
            ELSE IF 1 \in lens
            THEN MatchFrom(s, p + 1, k + 1, Append(acc, FieldVal(s, p, 1)))
            ELSE ValueError

Match(s) == MatchFrom(s, 1, 1, <<>>)

\* datetime's own range checks on the extracted fields.
ValidDateTime(f) ==
    /\ f[1] >= 1
    /\ f[3] <= DaysInMonth(f[1], f[2])
    /\ f[6] <= 59

strptime(s) ==
    LET f == Match(s) IN
    IF f = ValueError THEN ValueError
    ELSE IF ValidDateTime(f) THEN f ELSE ValueError

\* z_to_dt with the empty string treated like None.
z_to_dt_empty_is_none(zz) == IF zz = None \/ zz = <<>> THEN None ELSE strptime(zz)

z_to_dt(zz) == IF zz = None THEN None ELSE strptime(zz)

Pad2(n) == <<DigitChar(n \div 10), DigitChar(n % 10)>>
Pad4(n) == <<DigitChar(n \div 1000), DigitChar((n \div 100) % 10)>> \o Pad2(n % 100)
\* C's %Y: the platform either zero-pads the year to four digits or prints
\* it bare (glibc).
RECURSIVE Bare(_)
Bare(n) == IF n < 10 THEN <<DigitChar(n)>> ELSE Bare(n \div 10) \o <<DigitChar(n % 10)>>

strftime(f, pads) ==
    (IF pads THEN Pad4(f[1]) ELSE Bare(f[1])) \o <<"-">> \o Pad2(f[2]) \o <<"-">>
    \o Pad2(f[3]) \o <<"T">> \o Pad2(f[4]) \o <<":">> \o Pad2(f[5]) \o <<":">>
    \o Pad2(f[6]) \o <<"Z">>

dt_to_z(f, pads) == IF f = None THEN None ELSE strftime(f, pads)

(***************************************************************************)
(* Paginated fetch.  A URL is a page number of the server's chain of       *)
(* pages; EmptyUrl is the empty string ''.  A response says whether its    *)
(* headers hold a link header (has_link) and carries the header split at   *)
(* ',': a sequence of entries <url>; rel="...", each modelled by its url   *)
(* and its rel.                                                            *)
(***************************************************************************)
EmptyUrl == 0
FirstUrl == 1
KeyError == <<"KeyError">>
RequestError == <<"RequestError">>

\* The header Canvas sends with page i of n: the final page has no next.
CanvasLinks(i, n) ==
    <<[url |-> i, rel |-> "current"]>>
    \o (IF i < n THEN <<[url |-> i + 1, rel |-> "next"]>> ELSE <<>>)
    \o <<[url |-> 1, rel |-> "first"], [url |-> n, rel |-> "last"]>>

\* The same header without the entries whose rel is in drop.
RECURSIVE Without(_, _)
Without(links, drop) ==
    IF links = <<>> THEN <<>>
    ELSE (IF Head(links).rel \in drop THEN <<>> ELSE <<Head(links)>>)
         \o Without(Tail(links), drop)

\* The records page i carries, two to a page.
Records(i) == <<10 * i + 1, 10 * i + 2>>

RECURSIVE get_navigation_from(_, _)
get_navigation_from(link_list, acc) ==
    IF link_list = <<>> THEN acc
    ELSE LET link_info == Head(link_list)
             a1 == IF link_info.rel = "current"
                   THEN [acc EXCEPT !.current_link = link_info.url] ELSE acc
             a2 == IF link_info.rel = "next"
                   THEN [a1 EXCEPT !.next_link = link_info.url] ELSE a1
             a3 == IF link_info.rel = "last"
                   THEN [a2 EXCEPT !.last_link = link_info.url] ELSE a2
         IN get_navigation_from(Tail(link_list), a3)

get_navigation(link_list) ==
    get_navigation_from(link_list,
        [current_link |-> EmptyUrl, next_link |-> EmptyUrl, last_link |-> EmptyUrl])

Looping == <<"loop">>
Returned == <<"returned">>

\* The break test taken on the next link instead of the current one.
LoopBreaks_on_next(nav) == nav.next_link = nav.last_link

\* The break test that ends the while loop.
LoopBreaks(nav) == nav.current_link = nav.last_link

\* One pass of the body of get_list's while loop from the loop state
\* st = [url, this_list, requests, pc], against the server's pages srv.
\* session.get raises for a URL that names no page ('' has no schema);
\* response.headers['link'] raises KeyError when there is no link header.
get_list_step(srv, st) ==
    IF st.url \notin DOMAIN srv
    THEN [st EXCEPT !.requests = Append(@, st.url), !.pc = RequestError]
    ELSE LET response == srv[st.url]
             reqs == Append(st.requests, st.url)
         IN IF ~response.has_link
            THEN [st EXCEPT !.requests = reqs, !.pc = KeyError]
            ELSE LET nav == get_navigation(response.link)
                     lst == st.this_list \o response.body
                 IN IF LoopBreaks(nav)
                    THEN [st EXCEPT !.requests = reqs, !.this_list = lst,
                                    !.pc = Returned]
                    ELSE [st EXCEPT !.requests = reqs, !.this_list = lst,
                                    !.url = nav.next_link]

\* get_list: the loop run to its end, as the final loop state.
RECURSIVE get_list_from(_, _)
get_list_from(srv, st) ==
    IF st.pc # Looping THEN st ELSE get_list_from(srv, get_list_step(srv, st))

get_list(srv, first_url) ==
    get_list_from(srv, [url |-> first_url, this_list |-> <<>>, requests |-> <<>>,
                        pc |-> Looping])

\* ---- the timestamp codec as a state machine ----
YearParts == { <<"2","0","2","4">>, <<"2","0","2","3">>, <<"0","9","9","9">>,
               <<"0","2","4">> }
MonthParts == { <<"0","2">>, <<"2">>, <<"1","2">>, <<"1","3">>, <<"0","0">> }
DayParts == { <<"2","9">>, <<"0","9">>, <<"9">>, <<" ","9">>, <<"3","0">> }
TParts == { <<"T">>, <<"t">>, <<" ">> }
HourParts == { <<"0","3">>, <<"3">>, <<"2","4">> }
MinuteParts == { <<"0","4">>, <<"6","0">> }
SecondParts == { <<"0","5">>, <<"5">>, <<"6","0">> }
ZParts == { <<"Z">>, <<"z">>, <<>>, <<".","5","Z">> }

CodecInputs ==
    {None, <<>>} \cup
    { y \o <<"-">> \o m \o <<"-">> \o d \o t \o h \o <<":">> \o mi \o <<":">>
      \o sec \o zz :
        y \in YearParts, m \in MonthParts, d \in DayParts, t \in TParts,
        h \in HourParts, mi \in MinuteParts, sec \in SecondParts, zz \in ZParts }

FetchIdle ==
    /\ pages = <<>> /\ url = EmptyUrl /\ this_list = <<>>
    /\ requests = <<>> /\ fpc = <<"idle">>

CodecIdle ==
    /\ z = None /\ dto = None /\ zout = None /\ padsYear = TRUE
    /\ cpc = "idle"

RunIdle ==
    /\ script = "none" /\ server = <<>> /\ pc = "idle" /\ error = None
    /\ assignment_groups = <<>> /\ assignments = <<>>
    /\ assignments_by_group = <<>> /\ students = <<>>
    /\ all_submissions = <<>> /\ gradebook = <<>>
    /\ assignment_ids_by_due_date = <<>>
    /\ last_non_zero_score = <<>> /\ last_submission = <<>>
    /\ cursor = 0 /\ outfile = <<"closed">>

CodecInit ==
    /\ z \in CodecInputs
    /\ padsYear \in BOOLEAN
    /\ dto = None /\ zout = None
    /\ cpc = "start"
    /\ FetchIdle /\ RunIdle

\* dto = z_to_dt(z)
ZToDt ==
    /\ cpc = "start"
    /\ dto' = z_to_dt(z)
    /\ cpc' = IF dto' = ValueError THEN "raised" ELSE "parsed"
    /\ UNCHANGED <<z, zout, padsYear, fetch_vars, run_vars>>

\* zout = dt_to_z(dto)
DtToZ ==
    /\ cpc = "parsed"
    /\ zout' = dt_to_z(dto, padsYear)
    /\ cpc' = "formatted"
    /\ UNCHANGED <<z, dto, padsYear, fetch_vars, run_vars>>

CodecNext == ZToDt \/ DtToZ

SpecCodec == CodecInit /\ [][CodecNext]_vars

\* ---- get_list as a state machine ----
MaxPages == 3

\* What the server may leave out of a page's response: the whole link
\* header, or some of its current, next and last entries.
Defects ==
    { [has_link |-> TRUE, drop |-> d] : d \in SUBSET {"current", "next", "last"} }
    \cup { [has_link |-> FALSE, drop |-> {}] }
NoDefect == [has_link |-> TRUE, drop |-> {}]

ServerPage(i, n, defect, body) ==
    [has_link |-> defect.has_link,
     link |-> IF defect.has_link THEN Without(CanvasLinks(i, n), defect.drop) ELSE <<>>,
     body |-> body]

FetchInit ==
    /\ \E n \in 1..MaxPages :
         \E defects \in [1..n -> Defects] :
            pages = [i \in 1..n |-> ServerPage(i, n, defects[i], Records(i))]
    /\ url = FirstUrl
    /\ this_list = <<>>
    /\ requests = <<>>
    /\ fpc = Looping
    /\ CodecIdle /\ RunIdle

LoopState == [url |-> url, this_list |-> this_list, requests |-> requests, pc |-> fpc]

\* One iteration of the while loop: request, parse the links, append, test.
GetPage ==
    /\ fpc = Looping
    /\ LET st == get_list_step(pages, LoopState) IN
         /\ url' = st.url
         /\ this_list' = st.this_list
         /\ requests' = st.requests
         /\ fpc' = st.pc
    /\ UNCHANGED <<pages, codec_vars, run_vars>>

\* session.get fails (connection error): the exception leaves the loop.
GetFails ==
    /\ fpc = Looping
    /\ requests' = Append(requests, url)
    /\ fpc' = RequestError
    /\ UNCHANGED <<pages, url, this_list, codec_vars, run_vars>>

FetchNext == GetPage \/ GetFails

SpecFetch == FetchInit /\ [][FetchNext]_vars

(***************************************************************************)
(* The scripts.  A dict is modelled by its keys in insertion order plus    *)
(* the values; the course on the server is server.assignment_groups,       *)
(* server.assignments, server.enrollments and server.submissions (one      *)
(* list per assignment id), served in pages of ServerPageSize records.     *)
(***************************************************************************)
IndexError == <<"IndexError">>
TypeError == <<"TypeError">>
Closed == <<"closed">>

ServerPageSize == 1

Min(a, b) == IF a < b THEN a ELSE b
SeqToSet(q) == { q[i] : i \in DOMAIN q }

\* datetime's <: field by field, the year first.
DtLess(a, b) == \E i \in 1..6 : a[i] < b[i] /\ \A j \in 1..(i - 1) : a[j] = b[j]

\* str() of a user id.
str(n) == Bare(n)

\* The pages the server answers a collection's URL with.  server.fault
\* names at most one collection and one page of it that is served with a
\* defective link header, or not at all (down).
PageCount(records) ==
    IF Len(records) = 0 THEN 1
    ELSE (Len(records) + ServerPageSize - 1) \div ServerPageSize
PageBody(records, i) ==
    SubSeq(records, (i - 1) * ServerPageSize + 1, Min(i * ServerPageSize, Len(records)))
ServerPages(records, coll) ==
    LET n == PageCount(records)
        f == server.fault
    IN [ i \in { j \in 1..n : ~(f.coll = coll /\ f.page = j /\ f.down) } |->
           ServerPage(i, n, IF f.coll = coll /\ f.page = i THEN f.defect ELSE NoDefect,
                      PageBody(records, i)) ]

\* { str(student['user_id']): student for student in students }: the keys,
\* each once, in the order of first insertion.
RECURSIVE StudentKeys(_)
StudentKeys(enrollments) ==
    IF enrollments = <<>> THEN <<>>
    ELSE LET rest == StudentKeys(SubSeq(enrollments, 1, Len(enrollments) - 1))
             k == str(enrollments[Len(enrollments)].user_id)
         IN IF k \in SeqToSet(rest) THEN rest ELSE Append(rest, k)

AssignmentIds(asgs) == [ i \in DOMAIN asgs |-> asgs[i].id ]
AssignmentById(asgs, id) == asgs[CHOOSE i \in DOMAIN asgs : asgs[i].id = id]

\* assignments_by_group: every assignment appended to its group's list.
RECURSIVE IdsOfGroup(_, _)
IdsOfGroup(asgs, g) ==
    IF asgs = <<>> THEN <<>>
    ELSE (IF Head(asgs).assignment_group_id = g THEN <<Head(asgs).id>> ELSE <<>>)
         \o IdsOfGroup(Tail(asgs), g)
AssignmentsByGroup(groups, asgs) ==
    [ g \in { groups[i].id : i \in DOMAIN groups } |-> IdsOfGroup(asgs, g) ]

\* The gradebook of last_nonzero_score.py: 'NADA', overwritten by every
\* submission of an active student on the assignment, the last one winning.
RECURSIVE GradebookEntry(_, _, _)
GradebookEntry(subs, student, sofar) ==
    IF subs = <<>> THEN sofar
    ELSE LET submission == Head(subs)
             now == IF str(submission.user_id) # student THEN sofar
                    ELSE IF submission.score[1] = "float" THEN submission.score
                    ELSE IF submission.excused THEN <<"EX">>
                    ELSE <<"">>
         IN GradebookEntry(Tail(subs), student, now)
Gradebook(studs, asgs, subs) ==
    [ key \in SeqToSet(studs) \X SeqToSet(AssignmentIds(asgs)) |->
        GradebookEntry(subs[key[2]], key[1], <<"NADA">>) ]

\* due_dates: the distinct due dates, sorted, and None appended.
RECURSIVE SortDates(_)
SortDates(S) ==
    IF S = {} THEN <<>>
    ELSE LET m == CHOOSE x \in S : \A y \in S : ~DtLess(y, x)
         IN <<m>> \o SortDates(S \ {m})
\* due_dates without the trailing None.
due_dates_without_none(asgs) ==
    SortDates({ z_to_dt(asgs[i].due_at) : i \in DOMAIN asgs } \ {None})

due_dates(asgs) ==
    SortDates({ z_to_dt(asgs[i].due_at) : i \in DOMAIN asgs } \ {None}) \o <<None>>

\* [ id for date in due_dates for id in assignments if z_to_dt(due_at) == date ]
RECURSIVE IdsDueAt(_, _)
IdsDueAt(asgs, date) ==
    IF asgs = <<>> THEN <<>>
    ELSE (IF z_to_dt(Head(asgs).due_at) = date THEN <<Head(asgs).id>> ELSE <<>>)
         \o IdsDueAt(Tail(asgs), date)
RECURSIVE IdsByDates(_, _)
IdsByDates(asgs, dates) ==
    IF dates = <<>> THEN <<>>
    ELSE IdsDueAt(asgs, Head(dates)) \o IdsByDates(asgs, Tail(dates))
\* The assignment ids left in the order they were retrieved in.
ids_unsorted(asgs) == [ i \in DOMAIN asgs |-> asgs[i].id ]

ids_by_due_date(asgs) == IdsByDates(asgs, due_dates(asgs))

\* The submissions a walk visits, in order: for each assignment id of
\* order, each submission of that assignment.
RECURSIVE WalkList(_, _)
WalkList(order, subs) ==
    IF order = <<>> THEN <<>>
    ELSE [ i \in DOMAIN subs[Head(order)] |->
             [assignment_id |-> Head(order), submission |-> subs[Head(order)][i]] ]
         \o WalkList(Tail(order), subs)

Same(m) == [map |-> m, raised |-> None]
Raises(m, e) == [map |-> m, raised |-> e]

\* The loop body without its tests on the due date: every positive score
\* of a known student sets the date.
nonzero_step_unguarded(scr, last, studs, due_at, submission) ==
    IF submission.score[1] # "float" THEN Same(last)
    ELSE LET student_id == str(submission.user_id) IN
         IF submission.score[2] > 0 /\ student_id \in DOMAIN last
         THEN Same([last EXCEPT ![student_id] = z_to_dt(due_at)])
         ELSE Same(last)

\* The body of the last_non_zero_score loop for one submission.  Only
\* last_participation.py tests that the student is active; the lookup
\* last_non_zero_score[student] comes after score > 0 in the condition.
nonzero_step(scr, last, studs, due_at, submission) ==
    IF submission.score[1] # "float" THEN Same(last)
    ELSE LET assignment_date == z_to_dt(due_at) IN
         IF assignment_date = None THEN Same(last)
         ELSE LET student_id == str(submission.user_id) IN
              IF scr = "last_participation" /\ student_id \notin SeqToSet(studs)
              THEN Same(last)
              ELSE IF ~(submission.score[2] > 0) THEN Same(last)
              ELSE IF student_id \notin DOMAIN last THEN Raises(last, KeyError)
              ELSE IF last[student_id] = None THEN Raises(last, TypeError)
              ELSE IF DtLess(last[student_id], assignment_date)
                   THEN Same([last EXCEPT ![student_id] = assignment_date])
                   ELSE Same(last)

\* The loop body without the comparison: the submission visited last wins.
submission_step_overwrite(last, studs, submission) ==
    LET student_id == str(submission.user_id)
        submitted_at == z_to_dt(submission.submitted_at)
    IN IF submitted_at = ValueError THEN Raises(last, ValueError)
       ELSE IF submitted_at = None THEN Same(last)
       ELSE IF student_id \notin SeqToSet(studs) THEN Same(last)
       ELSE Same([last EXCEPT ![student_id] = submitted_at])

\* The body of the last_submission loop for one submission.
submission_step(last, studs, submission) ==
    LET student_id == str(submission.user_id)
        submitted_at == z_to_dt(submission.submitted_at)
    IN IF submitted_at = ValueError THEN Raises(last, ValueError)
       ELSE IF submitted_at = None THEN Same(last)
       ELSE IF student_id \notin SeqToSet(studs) THEN Same(last)
       ELSE IF last[student_id] = None
            THEN Same([last EXCEPT ![student_id] = submitted_at])
       ELSE IF DtLess(last[student_id], submitted_at)
            THEN Same([last EXCEPT ![student_id] = submitted_at])
       ELSE Same(last)

Raise(e) == pc' = "error" /\ error' = e

\* assignment_groups = get_list(...)
GetAssignmentGroups ==
    /\ pc = "get_assignment_groups"
    /\ LET r == get_list(ServerPages(server.assignment_groups, "assignment_groups"), FirstUrl)
       IN IF r.pc # Returned
          THEN Raise(r.pc) /\ UNCHANGED assignment_groups
          ELSE /\ assignment_groups' = r.this_list
               /\ pc' = "get_assignments"
               /\ UNCHANGED error
    /\ UNCHANGED <<input_vars, assignments, assignments_by_group, students,
                   all_submissions, gradebook, result_vars, cursor, codec_vars,
                   fetch_vars>>

\* assignments = get_list(...), then assignments_by_group
GetAssignments ==
    /\ pc = "get_assignments"
    /\ LET r == get_list(ServerPages(server.assignments, "assignments"), FirstUrl)
       IN IF r.pc # Returned
          THEN Raise(r.pc) /\ UNCHANGED <<assignments, assignments_by_group>>
          ELSE /\ assignments' = r.this_list
               /\ IF \E i \in DOMAIN r.this_list :
                        r.this_list[i].assignment_group_id
                          \notin { assignment_groups[j].id : j \in DOMAIN assignment_groups }
                  THEN Raise(KeyError) /\ UNCHANGED assignments_by_group
                  ELSE /\ assignments_by_group'
                            = AssignmentsByGroup(assignment_groups, r.this_list)
                       /\ pc' = "get_students"
                       /\ UNCHANGED error
    /\ UNCHANGED <<input_vars, assignment_groups, students, all_submissions, gradebook,
                   result_vars, cursor, codec_vars, fetch_vars>>

\* students = get_list(...) (inlined in last_nonzero_score.py)
GetStudents ==
    /\ pc = "get_students"
    /\ LET r == get_list(ServerPages(server.enrollments, "enrollments"), FirstUrl)
       IN IF r.pc # Returned
          THEN Raise(r.pc) /\ UNCHANGED students
          ELSE /\ students' = StudentKeys(r.this_list)
               /\ pc' = "get_submissions"
               /\ UNCHANGED error
    /\ UNCHANGED <<input_vars, assignment_groups, assignments, assignments_by_group,
                   all_submissions, gradebook, result_vars, cursor, codec_vars,
                   fetch_vars>>

\* for assignment_id in assignments: all_submissions.update(...)
GetSubmissions ==
    /\ pc = "get_submissions"
    /\ LET ids == AssignmentIds(assignments)
           r == [ id \in SeqToSet(ids) |->
                    get_list(ServerPages(server.submissions[id], "submissions"), FirstUrl) ]
           failed == { i \in DOMAIN ids : r[ids[i]].pc # Returned }
       IN IF failed # {}
          THEN /\ Raise(r[ids[CHOOSE i \in failed : \A j \in failed : i <= j]].pc)
               /\ UNCHANGED all_submissions
          ELSE /\ all_submissions' = [ id \in SeqToSet(ids) |-> r[id].this_list ]
               /\ pc' = IF script = "last_nonzero_score" THEN "gradebook" ELSE "sort"
               /\ UNCHANGED error
    /\ UNCHANGED <<input_vars, assignment_groups, assignments, assignments_by_group,
                   students, gradebook, result_vars, cursor, codec_vars, fetch_vars>>

\* Create Gradebook (last_nonzero_score.py only)
CreateGradebook ==
    /\ pc = "gradebook"
    /\ gradebook' = Gradebook(students, assignments, all_submissions)
    /\ pc' = "sort"
    /\ UNCHANGED <<input_vars, error, assignment_groups, assignments,
                   assignments_by_group, students, all_submissions, result_vars,
                   cursor, codec_vars, fetch_vars>>

\* due_dates and the assignment ids ordered by due date
SortAssignments ==
    /\ pc = "sort"
    /\ IF \E i \in DOMAIN assignments : z_to_dt(assignments[i].due_at) = ValueError
       THEN Raise(ValueError) /\ UNCHANGED assignment_ids_by_due_date
       ELSE /\ assignment_ids_by_due_date' = ids_by_due_date(assignments)
            /\ pc' = "seed"
            /\ UNCHANGED error
    /\ UNCHANGED <<input_vars, snapshot_vars, last_non_zero_score, last_submission,
                   outfile, cursor, codec_vars, fetch_vars>>

\* z_to_dt(assignments[assignment_ids_by_due_date[0]]['due_at'])
first_due_date ==
    z_to_dt(AssignmentById(assignments, assignment_ids_by_due_date[1]).due_at)

\* first_due_date and the seeded last_non_zero_score
Seed ==
    /\ pc = "seed"
    /\ IF assignment_ids_by_due_date = <<>>
       THEN Raise(IndexError) /\ UNCHANGED <<last_non_zero_score, cursor>>
       ELSE /\ last_non_zero_score' = [ s \in SeqToSet(students) |-> first_due_date ]
            /\ cursor' = 1
            /\ pc' = "walk_nonzero"
            /\ UNCHANGED error
    /\ UNCHANGED <<input_vars, snapshot_vars, assignment_ids_by_due_date,
                   last_submission, outfile, codec_vars, fetch_vars>>

NonzeroWalk == WalkList(assignment_ids_by_due_date, all_submissions)

\* One submission of the last_non_zero_score loop.
WalkNonzero ==
    /\ pc = "walk_nonzero"
    /\ cursor <= Len(NonzeroWalk)
    /\ LET w == NonzeroWalk[cursor]
           r == nonzero_step(script, last_non_zero_score, students,
                             AssignmentById(assignments, w.assignment_id).due_at,
                             w.submission)
       IN IF r.raised # None
          THEN Raise(r.raised) /\ UNCHANGED <<last_non_zero_score, cursor>>
          ELSE /\ last_non_zero_score' = r.map
               /\ cursor' = cursor + 1
               /\ UNCHANGED <<pc, error>>
    /\ UNCHANGED <<input_vars, snapshot_vars, assignment_ids_by_due_date,
                   last_submission, outfile, codec_vars, fetch_vars>>

\* The loop is over: last_participation.py goes on to the last_submission
\* loop, last_nonzero_score.py to the export.
EndWalkNonzero ==
    /\ pc = "walk_nonzero"
    /\ cursor > Len(NonzeroWalk)
    /\ IF script = "last_participation"
       THEN /\ last_submission' = [ s \in SeqToSet(students) |-> None ]
            /\ pc' = "walk_submission"
       ELSE /\ pc' = "export"
            /\ UNCHANGED last_submission
    /\ cursor' = 1
    /\ UNCHANGED <<input_vars, error, snapshot_vars, assignment_ids_by_due_date,
                   last_non_zero_score, outfile, codec_vars, fetch_vars>>

SubmissionWalk == WalkList(AssignmentIds(assignments), all_submissions)

\* One submission of the last_submission loop.
WalkSubmission ==
    /\ pc = "walk_submission"
    /\ cursor <= Len(SubmissionWalk)
    /\ LET r == submission_step(last_submission, students,
                                SubmissionWalk[cursor].submission)
       IN IF r.raised # None
          THEN Raise(r.raised) /\ UNCHANGED <<last_submission, cursor>>
          ELSE /\ last_submission' = r.map
               /\ cursor' = cursor + 1
               /\ UNCHANGED <<pc, error>>
    /\ UNCHANGED <<input_vars, snapshot_vars, assignment_ids_by_due_date,
                   last_non_zero_score, outfile, codec_vars, fetch_vars>>

EndWalkSubmission ==
    /\ pc = "walk_submission"
    /\ cursor > Len(SubmissionWalk)
    /\ pc' = "export"
    /\ UNCHANGED <<input_vars, error, snapshot_vars, result_vars, cursor, codec_vars,
                   fetch_vars>>

\* outfile.write('Student,ID,Last Nonzero Assignment Due Date,Last Submission')
HeaderRow ==
    << <<"Student">>, <<"ID">>, <<"Last Nonzero Assignment Due Date">>,
       <<"Last Submission">> >>

\* The rows of the report: last_participation.py writes a header row and
\* both dates, last_nonzero_score.py the one date.
ExportRows ==
    (IF script = "last_participation" THEN << HeaderRow >> ELSE <<>>)
    \o [ i \in DOMAIN students |->
           IF script = "last_participation"
           THEN <<students[i], last_non_zero_score[students[i]],
                  last_submission[students[i]]>>
           ELSE <<students[i], last_non_zero_score[students[i]]>> ]

\* with open(...) as outfile: the rows are written
Export ==
    /\ pc = "export"
    /\ outfile' = ExportRows
    /\ pc' = "done"
    /\ UNCHANGED <<input_vars, error, snapshot_vars, assignment_ids_by_due_date,
                   last_non_zero_score, last_submission, cursor, codec_vars,
                   fetch_vars>>

RunNext ==
    \/ GetAssignmentGroups \/ GetAssignments \/ GetStudents \/ GetSubmissions
    \/ CreateGradebook \/ SortAssignments \/ Seed
    \/ WalkNonzero \/ EndWalkNonzero \/ WalkSubmission \/ EndWalkSubmission
    \/ Export

\* ---- the courses the scripts are run on ----
Z1 == <<"2","0","2","4","-","0","1","-","1","0","T","0","0",":","0","0",":","0","0","Z">>
Z2 == <<"2","0","2","4","-","0","2","-","0","1","T","0","0",":","0","0",":","0","0","Z">>
T1 == <<"2","0","2","4","-","0","1","-","0","9","T","1","2",":","3","0",":","0","0","Z">>
T2 == <<"2","0","2","4","-","0","3","-","0","1","T","0","0",":","0","0",":","0","0","Z">>

\* Two malformed timestamps: the empty string and a date without a time.
BadZ == <<>>
BadT == <<"2","0","2","4","-","0","3","-","0","1">>

MaxAssignments == 2
\* The most submissions a course holds, over all its assignments.
MaxSubmissions == 2

Scripts == {"last_participation", "last_nonzero_score"}
\* Users 1 and 3 are actively enrolled, user 2 is not; user 3 never submits.
Enrolled == <<1, 3>>
DueAts == {None, Z1, Z2}

\* A score is its Python type and its value: JSON null, 0.0, 5.0 and 5.
Submission(u, score, at) ==
    [user_id |-> u, score |-> score, excused |-> FALSE, submitted_at |-> at]
NoScore == <<"NoneType", 0>>
\* The submissions the score walk is checked on.
ScoreChoices ==
    { Submission(1, sc, None) :
        sc \in { NoScore, <<"float", 0>>, <<"float", 5>>, <<"int", 5>> } }
    \cup { Submission(2, <<"float", 5>>, None) }
\* The submissions the submitted_at walk is checked on.
TimeChoices ==
    { Submission(u, <<"float", 5>>, at) : u \in {1, 2}, at \in {None, T1, T2} }

SeqsUpTo(S, n) == UNION { [1..k -> S] : k \in 0..n }

\* The submissions of a course of na assignments: up to MaxSubmissions
\* pairs <<assignment index, submission>>, listed assignment by assignment,
\* a user having at most one submission on an assignment.
Placements(na, choices) ==
    { f \in SeqsUpTo((1..na) \X choices, MaxSubmissions) :
        /\ \A j \in 1..(Len(f) - 1) : f[j][1] <= f[j + 1][1]
        /\ \A j, k \in DOMAIN f :
              (j < k /\ f[j][1] = f[k][1]) => f[j][2].user_id # f[k][2].user_id }
RECURSIVE Placed(_, _)
Placed(f, i) ==
    IF f = <<>> THEN <<>>
    ELSE (IF Head(f)[1] = i THEN <<Head(f)[2]>> ELSE <<>>) \o Placed(Tail(f), i)

NoFault == [coll |-> "none", page |-> 0, down |-> FALSE, defect |-> NoDefect]

\* The course whose i-th assignment (id 100 + i) is due at dues[i] and has
\* the submissions subs[i].
Course(dues, subs, fault) ==
    [assignment_groups |-> << [id |-> 1], [id |-> 2] >>,
     assignments |-> [ i \in DOMAIN dues |->
                         [id |-> 100 + i, assignment_group_id |-> 2 - (i % 2),
                          due_at |-> dues[i]] ],
     enrollments |-> [ i \in DOMAIN Enrolled |-> [user_id |-> Enrolled[i]] ],
     submissions |-> [ id \in { 100 + i : i \in DOMAIN dues } |-> subs[id - 100] ],
     fault |-> fault]

RunStart ==
    /\ pc = "get_assignment_groups" /\ error = None
    /\ assignment_groups = <<>> /\ assignments = <<>>
    /\ assignments_by_group = <<>> /\ students = <<>>
    /\ all_submissions = <<>> /\ gradebook = <<>>
    /\ assignment_ids_by_due_date = <<>>
    /\ last_non_zero_score = <<>> /\ last_submission = <<>>
    /\ cursor = 0 /\ outfile = Closed
    /\ CodecIdle /\ FetchIdle

\* Both scripts, on every course of up to MaxAssignments assignments and
\* MaxSubmissions scored submissions, served without a fault.
Init ==
    /\ script \in Scripts
    /\ \E dues \in SeqsUpTo(DueAts, MaxAssignments) :
         \E f \in Placements(Len(dues), ScoreChoices) :
            server = Course(dues, [i \in DOMAIN dues |-> Placed(f, i)], NoFault)
    /\ RunStart

Spec == Init /\ [][RunNext]_vars

\* last_participation.py on every course of up to MaxAssignments
\* assignments and MaxSubmissions submissions with or without a
\* submitted_at, served without a fault.
ParticipationNext ==
    \/ GetAssignmentGroups \/ GetAssignments \/ GetStudents \/ GetSubmissions
    \/ SortAssignments \/ Seed
    \/ WalkNonzero \/ EndWalkNonzero \/ WalkSubmission \/ EndWalkSubmission
    \/ Export

ParticipationInit ==
    /\ script = "last_participation"
    /\ \E dues \in SeqsUpTo({None, Z1}, MaxAssignments) :
         \E f \in Placements(Len(dues), TimeChoices) :
            server = Course(dues, [i \in DOMAIN dues |-> Placed(f, i)], NoFault)
    /\ RunStart

SpecParticipation == ParticipationInit /\ [][ParticipationNext]_vars

\* Both scripts on a course of two assignments, where the server may serve
\* one page of one collection with a defective link header or not at all,
\* and where a due_at or a submitted_at may be malformed.
FaultyColls == {"assignment_groups", "assignments", "enrollments", "submissions"}
Faults ==
    {NoFault}
    \cup { [coll |-> c, page |-> p, down |-> FALSE, defect |-> d] :
             c \in FaultyColls, p \in 1..2, d \in Defects \ {NoDefect} }
    \cup { [coll |-> c, page |-> p, down |-> TRUE, defect |-> NoDefect] :
             c \in FaultyColls, p \in 1..2 }
FaultySubmissions ==
    { << Submission(1, <<"float", 5>>, T1), Submission(3, <<"float", 0>>, T2) >>,
      << Submission(1, <<"float", 5>>, BadT) >> }

FaultyInit ==
    /\ script \in Scripts
    /\ \E dues \in [1..2 -> {Z1, Z2, BadZ}] :
         \E subs \in FaultySubmissions :
            \E fault \in Faults :
               server = Course(dues, [i \in 1..2 |-> subs], fault)
    /\ RunStart

SpecFaulty == FaultyInit /\ [][RunNext]_vars

(***************************************************************************)
(* What the claims speak of, read off the course on the server.            *)
(***************************************************************************)
InstantOf(ts) ==
    CASE ts = Z1 -> <<2024, 1, 10, 0, 0, 0>>
      [] ts = Z2 -> <<2024, 2, 1, 0, 0, 0>>
      [] ts = T1 -> <<2024, 1, 9, 12, 30, 0>>
      [] ts = T2 -> <<2024, 3, 1, 0, 0, 0>>

Earliest(S) == CHOOSE x \in S : \A y \in S : x = y \/ DtLess(x, y)
Latest(S) == CHOOSE x \in S : \A y \in S : x = y \/ DtLess(y, x)

ActiveUsers == { server.enrollments[i].user_id : i \in DOMAIN server.enrollments }
ActiveKeys == { str(u) : u \in ActiveUsers }
ServerAssignments == SeqToSet(server.assignments)
DatedAssignments == { a \in ServerAssignments : a.due_at # None }
CourseDueDates == { InstantOf(a.due_at) : a \in DatedAssignments }
SubmissionsOn(a) == SeqToSet(server.submissions[a.id])
SubmissionsOf(u, a) == { sub \in SubmissionsOn(a) : sub.user_id = u }
IsPositive(sub) == sub.score[1] \in {"float", "int"} /\ sub.score[2] > 0
HasPositive(u) ==
    \E a \in ServerAssignments : \E sub \in SubmissionsOf(u, a) : IsPositive(sub)
PositiveDueDates(u) ==
    { InstantOf(a.due_at) :
        a \in { b \in DatedAssignments : \E sub \in SubmissionsOf(u, b) : IsPositive(sub) } }
SubmissionTimes(u) ==
    UNION { { InstantOf(sub.submitted_at) :
                sub \in { x \in SubmissionsOf(u, a) : x.submitted_at # None } } :
            a \in ServerAssignments }
InactiveSubmits ==
    \E a \in ServerAssignments : \E sub \in SubmissionsOn(a) : sub.user_id \notin ActiveUsers
PastSeed == pc \in {"walk_nonzero", "walk_submission", "export", "done"}
NonzeroWalkDone == pc \in {"walk_submission", "export", "done"}

\* C1: after the score walk, every active student with a strictly positive
\* numeric score (float or integer) on a dated assignment has
\* last_non_zero_score equal to the latest due date among those
\* assignments, and never earlier than the course's earliest due date.
C1_LatestPositiveDueDate ==
    NonzeroWalkDone =>
        \A u \in ActiveUsers :
            PositiveDueDates(u) # {} =>
                /\ last_non_zero_score[str(u)] = Latest(PositiveDueDates(u))
                /\ ~DtLess(last_non_zero_score[str(u)], Earliest(CourseDueDates))

\* C6: in a course with a dated assignment, after the score walk every
\* active student without a strictly positive score on a dated assignment
\* (no submission, no score, zero scores, positive scores on undated
\* assignments only) has last_non_zero_score equal to the course's earliest
\* due date.
C6_FloorWithoutPositive ==
    (NonzeroWalkDone /\ CourseDueDates # {}) =>
        \A u \in ActiveUsers :
            PositiveDueDates(u) = {}
                => last_non_zero_score[str(u)] = Earliest(CourseDueDates)

\* A finished run on a course of two due dates retrieved latest first, with
\* an active student whose only scores are zero or missing.
C6_Witness ==
    /\ pc = "done"
    /\ Cardinality(CourseDueDates) = 2
    /\ server.assignments[1].due_at = Z2
    /\ \E u \in ActiveUsers :
         /\ ~HasPositive(u)
         /\ \E a \in DatedAssignments : SubmissionsOf(u, a) # {}
         /\ last_non_zero_score[str(u)] = InstantOf(Z1)

\* C9: every step of the score walk leaves each student's
\* last_non_zero_score unchanged or replaces it with a strictly later
\* instant; it never turns an instant into None.
C9_MonotoneWalk ==
    [][ pc = "walk_nonzero" =>
          \A s \in DOMAIN last_non_zero_score :
             /\ s \in DOMAIN last_non_zero_score'
             /\ \/ last_non_zero_score'[s] = last_non_zero_score[s]
                \/ /\ last_non_zero_score[s] # None
                   /\ last_non_zero_score'[s] # None
                   /\ DtLess(last_non_zero_score[s], last_non_zero_score'[s]) ]_vars

\* The walk, on a course whose later due date was retrieved first, has
\* advanced a student past the seeded earliest due date and goes on.
C9_Witness ==
    /\ pc = "walk_nonzero"
    /\ cursor > 1
    /\ server.assignments[1].due_at = Z2
    /\ \E s \in DOMAIN last_non_zero_score :
         /\ last_non_zero_score[s] # None
         /\ DtLess(Earliest(CourseDueDates), last_non_zero_score[s])

\* The score walk of what is left of the walk list when the submissions of
\* users who are not active students are taken out.
RECURSIVE WalkOfActive(_, _)
WalkOfActive(walk, last) ==
    IF walk = <<>> THEN last
    ELSE IF str(Head(walk).submission.user_id) \notin ActiveKeys
    THEN WalkOfActive(Tail(walk), last)
    ELSE WalkOfActive(Tail(walk),
             nonzero_step(script, last, students,
                          AssignmentById(assignments, Head(walk).assignment_id).due_at,
                          Head(walk).submission).map)

\* C3: on a course where a user who is not an active student has
\* submissions, the run raises no error, the result mapping and the rows of
\* the report are keyed by exactly the active students, and the values are
\* those of the same course without these submissions.
C3_InactiveIgnored ==
    InactiveSubmits =>
        /\ pc # "error"
        /\ PastSeed => DOMAIN last_non_zero_score = ActiveKeys
        /\ pc = "done" =>
             /\ { outfile[i][1] : i \in DOMAIN outfile } \ {HeaderRow[1]} = ActiveKeys
             /\ last_non_zero_score
                  = WalkOfActive(NonzeroWalk, [ s \in ActiveKeys |-> first_due_date ])

\* C7 as claimed: a course without a dated assignment never gets past the
\* seed step, and leaves no result and no output file.
C7_NoDatedAssignmentFails ==
    DatedAssignments = {} =>
        /\ ~PastSeed
        /\ DOMAIN last_non_zero_score = {}
        /\ outfile = Closed

\* C7, amended: a course without any assignment fails at the seed step with
\* an IndexError and leaves no result and no output file; a course whose
\* assignments are all undated is seeded with None, keeps None for every
\* student and writes its report.
C7_SeedWithoutDueDate ==
    /\ server.assignments = <<>> =>
         /\ ~PastSeed
         /\ pc = "error" => error = IndexError
         /\ DOMAIN last_non_zero_score = {}
         /\ outfile = Closed
    /\ (server.assignments # <<>> /\ DatedAssignments = {}) =>
         /\ pc # "error"
         /\ PastSeed => /\ DOMAIN last_non_zero_score = ActiveKeys
                        /\ \A s \in ActiveKeys : last_non_zero_score[s] = None
         /\ pc = "done" => outfile # Closed

\* A finished run on a course whose assignments are all undated, one of
\* them with a positive score of an active student.
C7_Witness ==
    /\ pc = "done"
    /\ server.assignments # <<>>
    /\ DatedAssignments = {}
    /\ \E u \in ActiveUsers : HasPositive(u)
    /\ outfile # Closed

\* C2: after the submission walk, every active student's last_submission is
\* the latest submitted_at over all the student's submissions on all
\* assignments, dated or not, and None exactly when there is none.
C2_LastSubmissionIsLatest ==
    pc \in {"export", "done"} =>
        /\ DOMAIN last_submission = ActiveKeys
        /\ \A u \in ActiveUsers :
             last_submission[str(u)]
               = IF SubmissionTimes(u) = {} THEN None ELSE Latest(SubmissionTimes(u))

\* A finished run where an active student's two submissions carry two
\* timestamps, the later one visited first and one on an undated assignment.
C2_Witness ==
    /\ pc = "done"
    /\ \E u \in ActiveUsers :
         /\ Cardinality(SubmissionTimes(u)) = 2
         /\ \E i \in DOMAIN SubmissionWalk :
              /\ SubmissionWalk[i].submission.user_id = u
              /\ SubmissionWalk[i].submission.submitted_at = T2
              /\ \E j \in DOMAIN SubmissionWalk :
                   /\ i < j
                   /\ SubmissionWalk[j].submission.user_id = u
                   /\ SubmissionWalk[j].submission.submitted_at = T1
         /\ \E a \in ServerAssignments \ DatedAssignments :
              \E sub \in SubmissionsOf(u, a) : sub.submitted_at # None
         /\ last_submission[str(u)] = InstantOf(T2)

SnapshotComplete ==
    /\ assignment_groups = server.assignment_groups
    /\ assignments = server.assignments
    /\ students = [ i \in DOMAIN server.enrollments |-> str(server.enrollments[i].user_id) ]
    /\ all_submissions = server.submissions

\* C8: the output file is written only after all four collections have
\* been fetched completely and the walks have finished without an error.
C8_OutputOnlyAfterCompleteFetch ==
    outfile # Closed => /\ SnapshotComplete
                        /\ error = None
                        /\ pc = "done"

(***************************************************************************)
(* Claims about the paginated fetch.                                       *)
(***************************************************************************)
RECURSIVE RecordsUpTo(_)
RecordsUpTo(k) == IF k = 0 THEN <<>> ELSE RecordsUpTo(k - 1) \o pages[k].body
FirstUrls(k) == [ i \in 1..k |-> i ]

\* Each page but the last names the following page as next, and only the
\* last page has current equal to last.
PageChain ==
    \A i \in DOMAIN pages :
       /\ pages[i].has_link
       /\ i < Len(pages) => get_navigation(pages[i].link).next_link = i + 1
       /\ (get_navigation(pages[i].link).current_link
             = get_navigation(pages[i].link).last_link) <=> (i = Len(pages))

\* C4: on a chain of n pages the loop requests page 1, then each page's
\* next, never more than n pages, and returns after the n-th request with
\* the records of the n pages in page order.
C4_FetchesEveryPageOnce ==
    PageChain =>
        /\ fpc \in {Looping, Returned, RequestError}
        /\ requests = FirstUrls(Len(requests))
        /\ Len(requests) <= Len(pages)
        /\ fpc = Looping => /\ Len(requests) < Len(pages)
                            /\ url = Len(requests) + 1
                            /\ this_list = RecordsUpTo(Len(requests))
        /\ fpc = Returned => /\ Len(requests) = Len(pages)
                             /\ this_list = RecordsUpTo(Len(pages))

\* The loop has returned from a chain of three or more pages.
C4_Witness ==
    /\ PageChain
    /\ Len(pages) >= 3
    /\ fpc = Returned
    /\ Len(requests) = Len(pages)

\* C5: the fetch never returns normally with a list that lacks records of
\* the chain's pages.
C5_NoSilentPartialResult ==
    fpc = Returned => this_list = RecordsUpTo(Len(pages))

(***************************************************************************)
(* Claims about the timestamp codec.                                       *)
(***************************************************************************)
DigitPositions == {1, 2, 3, 4, 6, 7, 9, 10, 12, 13, 15, 16, 18, 19}
\* s has the exact shape YYYY-MM-DDTHH:MM:SSZ.
ExactShape(s) ==
    /\ Len(s) = 20
    /\ \A i \in DigitPositions : s[i] \in Digits
    /\ s[5] = "-" /\ s[8] = "-" /\ s[11] = "T"
    /\ s[14] = ":" /\ s[17] = ":" /\ s[20] = "Z"
TwoDigits(s, i) == 10 * DigitVal(s[i]) + DigitVal(s[i + 1])
ShapeFields(s) ==
    << 100 * TwoDigits(s, 1) + TwoDigits(s, 3), TwoDigits(s, 6), TwoDigits(s, 9),
       TwoDigits(s, 12), TwoDigits(s, 15), TwoDigits(s, 18) >>
ValidInstant(f) ==
    /\ f[1] >= 1
    /\ f[2] >= 1 /\ f[2] <= 12
    /\ f[3] >= 1 /\ f[3] <= DaysInMonth(f[1], f[2])
    /\ f[4] <= 23 /\ f[5] <= 59 /\ f[6] <= 59
ValidString(s) == ExactShape(s) /\ ValidInstant(ShapeFields(s))

\* The spellings of a field: two digits, or one digit when it is below ten.
Spelled(n) == {Pad2(n)} \cup (IF n < 10 THEN { <<DigitChar(n)>> } ELSE {})
\* Every string that spells the instant f with a four-digit year, fields of
\* one or two digits (the day also blank-padded), T or t, and Z or z.
Spellings(f) ==
    { Pad4(f[1]) \o <<"-">> \o m \o <<"-">> \o d \o t \o h \o <<":">> \o mi
      \o <<":">> \o sec \o zz :
        m \in Spelled(f[2]),
        d \in Spelled(f[3]) \cup (IF f[3] < 10 THEN { <<" ", DigitChar(f[3])>> } ELSE {}),
        t \in { <<"T">>, <<"t">> }, h \in Spelled(f[4]), mi \in Spelled(f[5]),
        sec \in Spelled(f[6]), zz \in { <<"Z">>, <<"z">> } }

\* C10 as claimed: None and the empty string parse to None, a valid string
\* of the exact shape parses to its instant, every other string raises, and
\* formatting the parsed value gives the string back.
C10_ParseFormatAsClaimed ==
    /\ cpc # "start" =>
         /\ z \in {None, <<>>} => dto = None
         /\ ValidString(z) => dto = ShapeFields(z)
         /\ (z \notin {None, <<>>} /\ ~ValidString(z)) => dto = ValueError
    /\ cpc = "formatted" =>
         /\ ValidString(z) => zout = z
         /\ dto = None => zout = None

\* C10, amended: None parses to None and the empty string raises; a valid
\* string of the exact shape parses to its instant; whatever parses is a
\* spelling of a valid instant with one- or two-digit fields, T or t and Z
\* or z, and every other string raises; formatting gives back a valid
\* string whose year is at least 1000, and None for None.
C10_ParseFormat ==
    /\ cpc # "start" =>
         /\ z = None => dto = None
         /\ z = <<>> => dto = ValueError
         /\ ValidString(z) => dto = ShapeFields(z)
         /\ dto \notin {None, ValueError} => ValidInstant(dto) /\ z \in Spellings(dto)
    /\ cpc = "formatted" =>
         /\ (ValidString(z) /\ ShapeFields(z)[1] >= 1000) => zout = z
         /\ dto = None => zout = None

\* A valid string of the exact shape has been parsed and formatted back.
C10_Witness ==
    /\ cpc = "formatted"
    /\ ValidString(z)
    /\ dto = <<2024, 2, 29, 3, 4, 5>>
    /\ zout = z
====
